---- MODULE Spec2Model ----
(***************************************************************************)
(* A model of src/src/web.rs of Moonfire NVR: the path router              *)
(* (decode_path), the parser of the `s` query parameter (Segments::parse)  *)
(* and the request handlers of ServiceInner, in particular                 *)
(* stream_view_mp4, which stitches recordings into one virtual .mp4.       *)
(*                                                                         *)
(* Strings are TLA+ strings; the character at position i of s is           *)
(* SubSeq(s, i, i).  Option<T> is a sequence of length 0 (None) or 1       *)
(* (Some(x) = <<x>>).                                                      *)
(***************************************************************************)
EXTENDS Integers, Sequences, FiniteSets, TLC

VARIABLES
    input,            \* the string handed to Segments::parse
    result,           \* what Segments::parse returned for it
    path,             \* the request's path
    route,            \* what decode_path returned for it
    pc,               \* where the request's handler stands
    resp,             \* what the handler returned
    recordings,       \* the store: the recordings of stream 1, by recording id
    lock,             \* TRUE while the request holds the database lock
    builder,          \* the mp4::FileBuilder of stream_view_mp4
    key,              \* stream_view_mp4: the key of the query parameter the
                      \* loop took last (its value is `input`)
    nparams,          \* the query parameters the loop has completed
    prev,             \* stream_view_mp4: the previous row's recording id
    cur_off,          \* stream_view_mp4: the duration of the rows seen so far
    delivered         \* the rows list_recordings_by_id has handed to the
                      \* callback for the current `s`, each with the sub-range
                      \* the callback handed to builder.append, if any

vars == <<input, result, path, route, pc, resp, recordings, lock, builder,
          key, nparams, prev, cur_off, delivered>>

None == <<>>
Some(x) == <<x>>

(***************************************************************************)
(* Characters and integers.                                                *)
(***************************************************************************)
At(s, i) == IF 1 <= i /\ i <= Len(s) THEN SubSeq(s, i, i) ELSE ""

AsciiDigits == <<"0", "1", "2", "3", "4", "5", "6", "7", "8", "9">>
AsciiDigit == {AsciiDigits[k] : k \in 1..10}
\* "u" stands for a decimal digit outside ASCII (such as U+0663): the regex
\* class \d is Unicode-aware, the integer parsers are not.
NonAsciiDigit == {"u"}
DigitVal(c) == (CHOOSE k \in 1..10 : AsciiDigits[k] = c) - 1

I32_MAX == 2147483647
I32_MIN == -I32_MAX - 1
I32_MAX_STR == "2147483647"
U32_MAX_STR == "4294967295"
I64_MAX_STR == "9223372036854775807"

RECURSIVE StripZeros(_)
StripZeros(s) == IF Len(s) > 0 /\ Head(s) = "0" THEN StripZeros(Tail(s)) ELSE s

\* a < b for two decimal numerals of the same length
RECURSIVE LexLess(_, _)
LexLess(a, b) ==
    IF Len(a) = 0 THEN FALSE
    ELSE IF Head(a) # Head(b) THEN DigitVal(Head(a)) < DigitVal(Head(b))
    ELSE LexLess(Tail(a), Tail(b))

\* a < b for two decimal numerals without leading zeros
DecLess(a, b) == Len(a) < Len(b) \/ (Len(a) = Len(b) /\ LexLess(a, b))

RECURSIVE DecValue(_, _)
DecValue(s, acc) ==
    IF Len(s) = 0 THEN acc ELSE DecValue(Tail(s), acc * 10 + DigitVal(Head(s)))

OkInt(v) == [ok |-> TRUE, v |-> v]
ErrInt == [ok |-> FALSE, v |-> 0]

\* i32::from_str, u32::from_str, i64::from_str on a string of the regex's
\* \d+ : an error on a character that is no ASCII digit and on a value above
\* the type's maximum, the value otherwise.
FromStr(s, maxStr) ==
    IF Len(s) = 0 THEN ErrInt
    ELSE IF \E i \in 1..Len(s) : At(s, i) \notin AsciiDigit THEN ErrInt
    ELSE IF DecLess(maxStr, StripZeros(s)) THEN ErrInt
    ELSE OkInt(DecValue(StripZeros(s), 0))

(***************************************************************************)
(* SEGMENTS_RE: ^(\d+)(-\d+)?(@\d+)?(?:\.(\d+)?-(\d+)?)?$                   *)
(***************************************************************************)
IsReDigit(c) == c \in AsciiDigit \cup NonAsciiDigit

\* the position after the longest run of \d that starts at position i
RECURSIVE DigitsEnd(_, _)
DigitsEnd(s, i) == IF IsReDigit(At(s, i)) THEN DigitsEnd(s, i + 1) ELSE i

NoCaptures == [matched |-> FALSE, g1 |-> "", g2 |-> None, g3 |-> None,
               g4 |-> None, g5 |-> None]

SEGMENTS_RE(s) ==
    LET e1 == DigitsEnd(s, 1)
        has2 == At(s, e1) = "-" /\ DigitsEnd(s, e1 + 1) > e1 + 1
        e2 == IF has2 THEN DigitsEnd(s, e1 + 1) ELSE e1
        has3 == At(s, e2) = "@" /\ DigitsEnd(s, e2 + 1) > e2 + 1
        e3 == IF has3 THEN DigitsEnd(s, e2 + 1) ELSE e2
        d4 == DigitsEnd(s, e3 + 1)
        d5 == DigitsEnd(s, d4 + 1)
        hasT == At(s, e3) = "." /\ At(s, d4) = "-"
        e4 == IF hasT THEN d5 ELSE e3
    IN  IF e1 > 1 /\ e4 = Len(s) + 1
        THEN [matched |-> TRUE,
              g1 |-> SubSeq(s, 1, e1 - 1),
              g2 |-> IF has2 THEN Some(SubSeq(s, e1, e2 - 1)) ELSE None,
              g3 |-> IF has3 THEN Some(SubSeq(s, e2, e3 - 1)) ELSE None,
              g4 |-> IF hasT /\ d4 > e3 + 1
                     THEN Some(SubSeq(s, e3 + 1, d4 - 1)) ELSE None,
              g5 |-> IF hasT /\ d5 > d4 + 1
                     THEN Some(SubSeq(s, d4 + 1, d5 - 1)) ELSE None]
        ELSE NoCaptures

(***************************************************************************)
(* Segments::parse                                                         *)
(***************************************************************************)
NotRun == [kind |-> "NotRun"]
ParseErr == [kind |-> "Err"]
ParsePanic == [kind |-> "Panic"]
Segments(ids_start, ids_end, open_id, start_time, end_time) ==
    [kind |-> "Ok", ids |-> [start |-> ids_start, end |-> ids_end],
     open_id |-> open_id, start_time |-> start_time, end_time |-> end_time]

\* `x + 1` on i32: [overflowed, v]
AddOne(x) == IF x = I32_MAX THEN [overflowed |-> TRUE, v |-> I32_MIN]
             ELSE [overflowed |-> FALSE, v |-> x + 1]

SegmentsParse(s, oc) ==
    LET caps == SEGMENTS_RE(s)
        ids_start == FromStr(caps.g1, I32_MAX_STR)
        last == IF caps.g2 # None THEN FromStr(Tail(caps.g2[1]), I32_MAX_STR)
                ELSE ids_start
        ids_end == AddOne(last.v)
        open_id == IF caps.g3 # None THEN FromStr(Tail(caps.g3[1]), U32_MAX_STR)
                   ELSE OkInt(0)
        start_time == IF caps.g4 # None THEN FromStr(caps.g4[1], I64_MAX_STR)
                      ELSE OkInt(0)
        e == IF caps.g5 # None THEN FromStr(caps.g5[1], I64_MAX_STR)
             ELSE OkInt(0)
    IN  IF ~caps.matched THEN ParseErr
        ELSE IF ~ids_start.ok THEN ParseErr
        ELSE IF ~last.ok THEN ParseErr
        ELSE IF ids_end.overflowed /\ oc THEN ParsePanic
        ELSE IF ~open_id.ok THEN ParseErr
        ELSE IF ids_start.v < 0 \/ ids_end.v <= ids_start.v THEN ParseErr
        ELSE IF ~start_time.ok THEN ParseErr
        ELSE IF start_time.v < 0 THEN ParseErr
        ELSE IF caps.g5 # None /\ ~e.ok THEN ParseErr
        ELSE IF caps.g5 # None /\ e.v <= start_time.v THEN ParseErr
        ELSE Segments(ids_start.v, ids_end.v,
                      IF caps.g3 # None THEN Some(open_id.v) ELSE None,
                      start_time.v,
                      IF caps.g5 # None THEN Some(e.v) ELSE None)

(***************************************************************************)
(* The inputs of the parser's specification: every concatenation of one    *)
(* piece per position of the grammar, the pieces including missing,        *)
(* malformed and out-of-range ones.                                        *)
(***************************************************************************)
StartPieces == {"", "0", "1", "5", "07", "2147483646", "2147483647",
                "2147483648", "x", "u", "-1", "1x"}
EndPieces == {"", "-", "-0", "-1", "-5", "-6", "-2147483646", "-2147483647",
              "-2147483648", "-u", "--5"}
OpenPieces == {"", "@", "@0", "@42", "@4294967296", "@x"}
RelStartPieces == {"", "0", "26", "42", "9223372036854775808"}
RelEndPieces == {"", "0", "26", "42", "43", "9223372036854775808", "x"}
TimePieces == {""} \cup {"." \o a \o "-" \o b : a \in RelStartPieces, b \in RelEndPieces}
                   \cup {".", ".26", ".26-42-", ". 26-42"}
ParseInputs == {a \o b \o c \o d :
                  a \in StartPieces, b \in EndPieces, c \in OpenPieces, d \in TimePieces}

(***************************************************************************)
(* decode_path                                                             *)
(***************************************************************************)
StartsWith(s, p) == Len(s) >= Len(p) /\ SubSeq(s, 1, Len(p)) = p
EndsWith(s, p) == Len(s) >= Len(p) /\ SubSeq(s, Len(s) - Len(p) + 1, Len(s)) = p
\* &s[n..]
SliceFrom(s, n) == SubSeq(s, n + 1, Len(s))
\* &s[a..b]
Slice(s, a, b) == SubSeq(s, a + 1, b)

\* str::find(c): the index (from 0) of the first c in s
RECURSIVE FindAt(_, _, _)
FindAt(s, c, i) ==
    IF i > Len(s) THEN None
    ELSE IF At(s, i) = c THEN Some(i - 1)
    ELSE FindAt(s, c, i + 1)
Find(s, c) == FindAt(s, c, 1)

HexDigits == <<"0", "1", "2", "3", "4", "5", "6", "7", "8", "9",
               "a", "b", "c", "d", "e", "f">>
HexDigit == {HexDigits[k] : k \in 1..16}
HexVal(c) == (CHOOSE k \in 1..16 : HexDigits[k] = c) - 1
AllHex(s) == \A i \in 1..Len(s) : At(s, i) \in HexDigit

\* strutil::dehex: 40 hex characters to the 20 bytes they spell
Dehex(s) ==
    IF Len(s) = 40 /\ AllHex(s)
    THEN Some([k \in 1..20 |-> 16 * HexVal(At(s, 2 * k - 1)) + HexVal(At(s, 2 * k))])
    ELSE None

\* Uuid::parse_str: the simple form (32 hex digits), the hyphenated form
\* (8-4-4-4-12) and the hyphenated form after "urn:uuid:"; the value is given
\* as its 32 hex digits
UuidParseStr(s) ==
    LET t == IF Len(s) = 45 /\ StartsWith(s, "urn:uuid:") THEN SliceFrom(s, 9) ELSE s
    IN  IF Len(t) = 32 /\ AllHex(t) THEN Some(t)
        ELSE IF /\ Len(t) = 36
                /\ \A i \in {9, 14, 19, 24} : At(t, i) = "-"
                /\ \A i \in (1..36) \ {9, 14, 19, 24} : At(t, i) \in HexDigit
        THEN Some(Slice(t, 0, 8) \o Slice(t, 9, 13) \o Slice(t, 14, 18)
                  \o Slice(t, 19, 23) \o Slice(t, 24, 36))
        ELSE None

\* db::StreamType::parse
StreamTypeParse(s) ==
    IF s = "main" THEN Some("main") ELSE IF s = "sub" THEN Some("sub") ELSE None

NoRoute == [kind |-> "NotRun", uuid |-> "", type |-> "", sha1 |-> <<>>]
PathOf(kind, uuid, type, sha1) ==
    [kind |-> kind, uuid |-> uuid, type |-> type, sha1 |-> sha1]

\* A faulty variant of DecodeStream that compares the leaf by prefix only;
\* the router property must tell it apart from DecodeStream.
DecodeStreamByPrefix(uuid, tail) ==
    LET slash == Find(tail, "/")
        type_ == StreamTypeParse(Slice(tail, 0, slash[1]))
        rest == SliceFrom(tail, slash[1])
    IN  IF slash = None THEN PathOf("NotFound", "", "", <<>>)
        ELSE IF type_ = None THEN PathOf("NotFound", "", "", <<>>)
        ELSE IF StartsWith(rest, "/recordings")
        THEN PathOf("StreamRecordings", uuid, type_[1], <<>>)
        ELSE IF StartsWith(rest, "/view.mp4")
        THEN PathOf("StreamViewMp4", uuid, type_[1], <<>>)
        ELSE IF StartsWith(rest, "/view.m4s")
        THEN PathOf("StreamViewMp4Segment", uuid, type_[1], <<>>)
        ELSE PathOf("NotFound", "", "", <<>>)

\* after "/cameras/<uuid>/": `tail` is what follows the uuid's slash
DecodeStream(uuid, tail) ==
    LET slash == Find(tail, "/")
        type_ == StreamTypeParse(Slice(tail, 0, slash[1]))
        rest == SliceFrom(tail, slash[1])
    IN  IF slash = None THEN PathOf("NotFound", "", "", <<>>)
        ELSE IF type_ = None THEN PathOf("NotFound", "", "", <<>>)
        ELSE IF rest = "/recordings" THEN PathOf("StreamRecordings", uuid, type_[1], <<>>)
        ELSE IF rest = "/view.mp4" THEN PathOf("StreamViewMp4", uuid, type_[1], <<>>)
        ELSE IF rest = "/view.m4s" THEN PathOf("StreamViewMp4Segment", uuid, type_[1], <<>>)
        ELSE PathOf("NotFound", "", "", <<>>)

\* after "/cameras/"
DecodeCamera(tail) ==
    LET slash == Find(tail, "/")
        uuid == UuidParseStr(Slice(tail, 0, slash[1]))
        rest == SliceFrom(tail, slash[1] + 1)
    IN  IF slash = None THEN PathOf("NotFound", "", "", <<>>)
        ELSE IF uuid = None THEN PathOf("NotFound", "", "", <<>>)
        ELSE IF Len(rest) = 0 THEN PathOf("Camera", uuid[1], "", <<>>)
        ELSE DecodeStream(uuid[1], rest)

decode_path(p) ==
    IF ~StartsWith(p, "/api/") THEN PathOf("Static", "", "", <<>>)
    ELSE LET sub == SliceFrom(p, 4)
         IN  IF sub = "/" THEN PathOf("TopLevel", "", "", <<>>)
             ELSE IF StartsWith(sub, "/init/")
             THEN IF Len(sub) # 50 \/ ~EndsWith(sub, ".mp4")
                  THEN PathOf("NotFound", "", "", <<>>)
                  ELSE LET sha1 == Dehex(Slice(sub, 6, 46))
                       IN  IF sha1 # None THEN PathOf("InitSegment", "", "", sha1[1])
                           ELSE PathOf("NotFound", "", "", <<>>)
             ELSE IF ~StartsWith(sub, "/cameras/")
             THEN PathOf("NotFound", "", "", <<>>)
             ELSE DecodeCamera(SliceFrom(sub, 9))

(***************************************************************************)
(* The database as the handlers see it.  One camera is known, with a main  *)
(* stream (stream id 1) and no sub stream; one video sample entry is       *)
(* known.  The recordings of stream 1 are the variable `recordings`.       *)
(***************************************************************************)
MaxId == 3            \* recording ids of the store are 1..MaxId
MaxParams == 2        \* query parameters of one view request

CameraUuidStr == "0a1b2c3d-4e5f-6789-abcd-ef0123456789"
OtherUuidStr == "ffffffff-ffff-ffff-ffff-ffffffffffff"
CameraUuid == UuidParseStr(CameraUuidStr)[1]
EntrySha1Str == "00112233445566778899aabbccddeeff00112233"
OtherSha1Str == "ffffffffffffffffffffffffffffffffffffffff"
EntrySha1 == Dehex(EntrySha1Str)[1]
UiFiles == {"/", "/index.html"}

\* LockedDatabase::get_camera
GetCamera(uuid) ==
    IF uuid = CameraUuid
    THEN Some([streams |-> [main |-> Some(1), sub |-> None]])
    ELSE None

OpenIds == {1, 2}
Durations == {0, 10}
Rows == [open_id : OpenIds, duration : Durations]
RecordingStores == [1..MaxId -> {None} \cup {Some(r) : r \in Rows}]

RowAt(recs, id) == IF id \in DOMAIN recs THEN recs[id] ELSE None

\* LockedDatabase::list_recordings_by_id: a forward scan of the recordings
\* whose id is in `ids`; the row that follows the rows already delivered,
\* if any
LastDeliveredId(ids, rows) ==
    IF Len(rows) = 0 THEN ids.start - 1 ELSE rows[Len(rows)].id
NextRowIds(recs, ids, rows) ==
    {id \in DOMAIN recs : /\ recs[id] # None
                          /\ ids.start <= id /\ id < ids.end
                          /\ id > LastDeliveredId(ids, rows)}
Min(S) == CHOOSE x \in S : \A y \in S : x <= y
NextRow(recs, ids, rows) ==
    LET S == NextRowIds(recs, ids, rows)
    IN  IF S = {} THEN None
        ELSE Some([id |-> Min(S), open_id |-> recs[Min(S)][1].open_id,
                   duration |-> recs[Min(S)][1].duration])

(***************************************************************************)
(* Responses.                                                              *)
(***************************************************************************)
NoResp == [status |-> "none", what |-> "", id |-> 0, body |-> <<>>]
\* Ok(response) with status 200
Ok200(what, body) == [status |-> "200", what |-> what, id |-> 0, body |-> body]
\* ServiceInner::not_found
NotFound404 == [status |-> "404", what |-> "not found", id |-> 0, body |-> <<>>]
\* Err(format_err!(...)) and `?` on a collaborator's error
Err(what, id) == [status |-> "err", what |-> what, id |-> id, body |-> <<>>]
Panicked == [status |-> "panic", what |-> "", id |-> 0, body |-> <<>>]

\* The builder is a collaborator: of its state the model keeps its type and
\* the subtitle flag; what is appended to it is kept with the row, in
\* `delivered`.
NoBuilder == [type |-> "none", subtitle |-> FALSE]
\* mp4::FileBuilder::new
FileBuilderNew(type) == [type |-> type, subtitle |-> FALSE]

(***************************************************************************)
(* stream_view_mp4: the callback it gives list_recordings_by_id and the    *)
(* checks after the scan, as functions of the handler's locals.            *)
(***************************************************************************)
\* i64::max_value() of `s.end_time.unwrap_or(i64::max_value())`.  The
\* checker's integers are 32 bits wide: the largest of them stands for it,
\* far above every time of the model.
I64_MAX == I32_MAX

Max2(a, b) == IF a >= b THEN a ELSE b
Min2(a, b) == IF a <= b THEN a ELSE b

\* A faulty variant of EpochMismatch that leaves out the rows after the time
\* window; the epoch property must tell it apart from EpochMismatch.
EpochMismatchInWindow(s, r) ==
    /\ s.open_id # None
    /\ r.open_id # s.open_id[1]
    /\ IF s.end_time = None THEN TRUE ELSE cur_off < s.end_time[1]

\* `if let Some(o) = s.open_id { if r.open_id != o { bail!(..) } }`
EpochMismatch(s, r) == s.open_id # None /\ r.open_id # s.open_id[1]

\* A faulty variant of MissingBefore that names the row after the gap
\* instead of the id that is missing.
MissingBeforeNamesRow(s, pr, recording_id) ==
    IF pr = None
    THEN IF recording_id = s.ids.start THEN None ELSE Some(recording_id)
    ELSE IF recording_id # pr[1] + 1 THEN Some(recording_id) ELSE None

\* `match prev { .. }` in the callback: the id reported missing, if any
MissingBefore(s, pr, recording_id) ==
    IF pr = None
    THEN IF recording_id = s.ids.start THEN None ELSE Some(s.ids.start)
    ELSE IF recording_id # pr[1] + 1 THEN Some(pr[1] + 1) ELSE None

\* "Add a segment for the relevant part of the recording, if any": the range
\* start..end handed to builder.append, None when the row is skipped.  (The
\* narrowing `as i32` leaves every value of the model as it is.)
Clip(s, off, d) ==
    LET end_time == IF s.end_time # None THEN s.end_time[1] ELSE I64_MAX
    IN  IF s.start_time <= off + d /\ off < end_time
        THEN Some([start |-> Max2(0, s.start_time - off),
                   end |-> Min2(d, end_time - off)])
        ELSE None

\* A faulty variant of MissingAfter that looks for a missing recording only
\* when no row was delivered.
MissingAfterNoRowOnly(s, pr) ==
    IF pr = None THEN Some(s.ids.start) ELSE None

\* `match prev { .. }` after the scan: the id reported missing, if any
MissingAfter(s, pr) ==
    IF pr = None THEN Some(s.ids.start)
    ELSE IF s.ids.end # pr[1] + 1 THEN Some(s.ids.end - 1)
    ELSE None

\* `if let Some(end) = s.end_time { if end > cur_off { bail!(..) } }`
EndTimeBeyond(s, off) == s.end_time # None /\ s.end_time[1] > off

Delivered(r, handed) ==
    [id |-> r.id, open_id |-> r.open_id, duration |-> r.duration, handed |-> handed]

(***************************************************************************)
(* The requests of the handlers' specification.                            *)
(***************************************************************************)
RequestPaths ==
    {"/api/", "/api/nothing", "/index.html", "/missing.png",
     "/api/init/" \o EntrySha1Str \o ".mp4",
     "/api/init/" \o OtherSha1Str \o ".mp4"}
    \cup {"/api/cameras/" \o u \o t :
            u \in {CameraUuidStr, OtherUuidStr},
            t \in {"/", "/main/recordings", "/sub/recordings",
                   "/main/view.mp4", "/sub/view.mp4", "/main/view.m4s"}}

\* the values of `s` in a view request's query
ViewIdPieces == {"1", "1-3", "2-3"}
ViewTailPieces == {"", "@1", ".10-", ".5-15", ".-25", "@1.5-15"}
ViewInputs ==
    {a \o b : a \in ViewIdPieces, b \in ViewTailPieces}
    \cup {"x", "3-1", "1-2147483647"}
\* what Segments::parse returns for each of them, by build
ViewParsed == [value \in ViewInputs |->
                 {SegmentsParse(value, oc) : oc \in BOOLEAN}]

Init ==
    /\ path \in RequestPaths
    /\ recordings \in RecordingStores
    /\ route = NoRoute
    /\ pc = "call"
    /\ resp = NoResp
    /\ lock = FALSE
    /\ builder = NoBuilder
    /\ input = ""
    /\ result = NotRun
    /\ prev = None
    /\ cur_off = 0
    /\ delivered = <<>>
    /\ key = ""
    /\ nparams = 0

Return(r) == resp' = r /\ pc' = "done"

\* Service::call: `match decode_path(req.uri().path())`
Call ==
    /\ pc = "call"
    /\ route' = decode_path(path)
    /\ pc' = CASE route'.kind = "InitSegment" -> "init_segment"
               [] route'.kind = "TopLevel" -> "top_level"
               [] route'.kind = "Camera" -> "camera"
               [] route'.kind = "StreamRecordings" -> "stream_recordings"
               [] route'.kind \in {"StreamViewMp4", "StreamViewMp4Segment"}
                    -> "stream_view_mp4"
               [] route'.kind = "NotFound" -> "not_found"
               [] route'.kind = "Static" -> "static_file"
    /\ UNCHANGED <<input, result, path, resp, recordings, lock, builder, key,
                   nparams, prev, cur_off, delivered>>

viewLocals == <<input, result, builder, key, nparams, prev, cur_off, delivered>>

\* Path::NotFound => self.0.not_found()
NotFound ==
    /\ pc = "not_found"
    /\ Return(NotFound404)
    /\ UNCHANGED <<path, route, recordings, lock>> /\ UNCHANGED viewLocals

\* top_level, up to `if let Some(mut w) = writer`
TopLevel ==
    /\ pc = "top_level"
    /\ \E writer \in BOOLEAN :
         IF writer THEN pc' = "top_level_lock" /\ resp' = resp
         ELSE Return(Ok200("json", <<>>))
    /\ UNCHANGED <<path, route, recordings, lock>> /\ UNCHANGED viewLocals

\* top_level: `let db = self.db.lock();`
TopLevelLock ==
    /\ pc = "top_level_lock"
    /\ ~lock
    /\ lock' = TRUE
    /\ pc' = "top_level_write"
    /\ UNCHANGED <<path, route, recordings, resp>> /\ UNCHANGED viewLocals

\* top_level: `serde_json::to_writer(&mut w, ..)?`, the end of the block
TopLevelWrite ==
    /\ pc = "top_level_write"
    /\ lock' = FALSE
    /\ \E ok \in BOOLEAN :
         Return(IF ok THEN Ok200("json", <<>>) ELSE Err("to_writer failed", 0))
    /\ UNCHANGED <<path, route, recordings>> /\ UNCHANGED viewLocals

\* camera, up to `if let Some(mut w) = writer`
Camera ==
    /\ pc = "camera"
    /\ \E writer \in BOOLEAN :
         IF writer THEN pc' = "camera_lock" /\ resp' = resp
         ELSE Return(Ok200("json", <<>>))
    /\ UNCHANGED <<path, route, recordings, lock>> /\ UNCHANGED viewLocals

\* camera: `let db = self.db.lock(); let camera = db.get_camera(uuid)..?`
CameraLock ==
    /\ pc = "camera_lock"
    /\ ~lock
    /\ IF GetCamera(route.uuid) = None
       THEN Return(Err("no such camera", 0)) /\ lock' = FALSE
       ELSE pc' = "camera_write" /\ resp' = resp /\ lock' = TRUE
    /\ UNCHANGED <<path, route, recordings>> /\ UNCHANGED viewLocals

\* camera: `serde_json::to_writer(&mut w, &json::Camera::wrap(..)?)?`
CameraWrite ==
    /\ pc = "camera_write"
    /\ lock' = FALSE
    /\ \E ok \in BOOLEAN :
         Return(IF ok THEN Ok200("json", <<>>) ELSE Err("to_writer failed", 0))
    /\ UNCHANGED <<path, route, recordings>> /\ UNCHANGED viewLocals

\* stream_recordings: the query's startTime90k, endTime90k and split90k
StreamRecordings ==
    /\ pc = "stream_recordings"
    /\ \E parsed \in BOOLEAN :
         IF parsed THEN pc' = "stream_recordings_list" /\ resp' = resp
         ELSE Return(Err("invalid query", 0))
    /\ UNCHANGED <<path, route, recordings, lock>> /\ UNCHANGED viewLocals

\* stream_recordings: the block that holds the lock
StreamRecordingsList ==
    /\ pc = "stream_recordings_list"
    /\ ~lock
    /\ LET camera == GetCamera(route.uuid)
       IN  IF camera = None THEN Return(Err("no such camera", 0))
           ELSE IF camera[1].streams[route.type] = None
           THEN Return(Err("no such stream", 0))
           ELSE \E listed \in BOOLEAN :
                  IF listed THEN pc' = "stream_recordings_write" /\ resp' = resp
                  ELSE Return(Err("list_aggregated_recordings failed", 0))
    /\ UNCHANGED <<path, route, recordings, lock>> /\ UNCHANGED viewLocals

\* stream_recordings: the streaming body and `serde_json::to_writer(&mut w, &out)?`
StreamRecordingsWrite ==
    /\ pc = "stream_recordings_write"
    /\ \E ok \in BOOLEAN :
         Return(IF ok THEN Ok200("json", <<>>) ELSE Err("to_writer failed", 0))
    /\ UNCHANGED <<path, route, recordings, lock>> /\ UNCHANGED viewLocals

\* init_segment: `let db = self.db.lock();` and the search of the entries
InitSegment ==
    /\ pc = "init_segment"
    /\ ~lock
    /\ IF route.sha1 = EntrySha1
       THEN pc' = "init_segment_serve" /\ resp' = resp /\ lock' = TRUE
       ELSE Return(NotFound404) /\ lock' = FALSE
    /\ UNCHANGED <<path, route, recordings>> /\ UNCHANGED viewLocals

\* init_segment: `builder.build(..)?` and `http_serve::serve(mp4, req)` inside
\* the loop; `db` is dropped when the function returns
InitSegmentServe ==
    /\ pc = "init_segment_serve"
    /\ lock' = FALSE
    /\ \E built \in BOOLEAN :
         Return(IF built THEN Ok200("mp4", FileBuilderNew("InitSegment"))
                ELSE Err("build failed", 0))
    /\ UNCHANGED <<path, route, recordings>> /\ UNCHANGED viewLocals

\* static_file
StaticFile ==
    /\ pc = "static_file"
    /\ IF path \notin UiFiles THEN Return(NotFound404)
       ELSE \E opened \in BOOLEAN :
              Return(IF opened THEN Ok200("file", <<>>) ELSE Err("open failed", 0))
    /\ UNCHANGED <<path, route, recordings, lock>> /\ UNCHANGED viewLocals

(***************************************************************************)
(* stream_view_mp4                                                         *)
(***************************************************************************)
\* the block that finds stream_id, and mp4::FileBuilder::new
ViewResolve ==
    /\ pc = "stream_view_mp4"
    /\ ~lock
    /\ LET camera == GetCamera(route.uuid)
       IN  IF camera = None
           THEN Return(Err("no such camera", 0)) /\ builder' = builder
           ELSE IF camera[1].streams[route.type] = None
           THEN Return(Err("no such stream", 0)) /\ builder' = builder
           ELSE /\ pc' = "view_params"
                /\ resp' = resp
                /\ builder' = FileBuilderNew(IF route.kind = "StreamViewMp4"
                                             THEN "Normal" ELSE "MediaSegment")
    /\ UNCHANGED <<input, result, path, route, recordings, lock, key, nparams,
                   prev, cur_off, delivered>>

\* an error leaves the function: the builder is dropped with it
Fail(r) == Return(r) /\ builder' = NoBuilder

\* the loop takes the next parameter of the query; the locals of the
\* parameter before it are gone
TakeParam(k, value) ==
    /\ pc = "view_params"
    /\ nparams < MaxParams
    /\ key' = k
    /\ input' = value
    /\ prev' = None
    /\ cur_off' = 0
    /\ delivered' = <<>>

\* the next parameter is `s`: Segments::parse on its value
ViewParamS ==
    /\ \E value \in ViewInputs :
         /\ TakeParam("s", value)
         /\ result' \in ViewParsed[value]
         /\ CASE result'.kind = "Err" -> Fail(Err("invalid s parameter", 0))
              [] result'.kind = "Panic" -> Fail(Panicked)
              [] result'.kind = "Ok" ->
                   pc' = "view_lock" /\ resp' = resp /\ builder' = builder
    /\ UNCHANGED <<path, route, recordings, lock, nparams>>

\* the next parameter is `ts`
ViewParamTs ==
    /\ \E value \in {"true", "false"} :
         /\ TakeParam("ts", value)
         /\ builder' = [builder EXCEPT !.subtitle = (value = "true")]
    /\ result' = NotRun
    /\ nparams' = nparams + 1
    /\ UNCHANGED <<path, route, pc, resp, recordings, lock>>

\* A faulty variant of ViewParamOther that passes over a key it does not
\* know.
ViewParamOtherIgnored ==
    /\ TakeParam("other", "1")
    /\ result' = NotRun
    /\ nparams' = nparams + 1
    /\ UNCHANGED <<path, route, pc, resp, recordings, lock, builder>>

\* the next parameter has any other key
ViewParamOther ==
    /\ TakeParam("other", "1")
    /\ result' = NotRun
    /\ Fail(Err("parameter not understood", 0))
    /\ UNCHANGED <<path, route, recordings, lock, nparams>>

\* `let db = self.db.lock(); let mut prev = None; let mut cur_off = 0;`
ViewLock ==
    /\ pc = "view_lock"
    /\ ~lock
    /\ lock' = TRUE
    /\ prev' = None
    /\ cur_off' = 0
    /\ pc' = "view_scan"
    /\ UNCHANGED <<input, result, path, route, resp, recordings, builder, key,
                   nparams, delivered>>

\* the callback bails: the scan ends, the lock and the builder are dropped
ScanFail(r, row, handed) ==
    /\ Fail(r)
    /\ delivered' = Append(delivered, Delivered(row, handed))
    /\ lock' = FALSE
    /\ UNCHANGED <<prev, cur_off>>

\* A faulty variant of ScanStep that advances the offset by the rows handed
\* to the builder only.
ScanStepHandedOnly(row, handed) ==
    /\ delivered' = Append(delivered, Delivered(row, handed))
    /\ prev' = Some(row.id)
    /\ cur_off' = IF handed = None THEN cur_off ELSE cur_off + row.duration
    /\ UNCHANGED <<pc, resp, lock, builder>>

\* the callback returns Ok(())
ScanStep(row, handed) ==
    /\ delivered' = Append(delivered, Delivered(row, handed))
    /\ prev' = Some(row.id)
    /\ cur_off' = cur_off + row.duration
    /\ UNCHANGED <<pc, resp, lock, builder>>

\* list_recordings_by_id hands the next row to the callback
ViewRow ==
    /\ pc = "view_scan"
    /\ NextRow(recordings, result.ids, delivered) # None
    /\ LET r == NextRow(recordings, result.ids, delivered)[1]
           missing == MissingBefore(result, prev, r.id)
           times == Clip(result, cur_off, r.duration)
       IN  \/ /\ EpochMismatch(result, r)
              /\ ScanFail(Err("open id mismatch", r.id), r, None)
           \/ /\ ~EpochMismatch(result, r)
              /\ missing # None
              /\ ScanFail(Err("no such recording", missing[1]), r, None)
           \/ /\ ~EpochMismatch(result, r)
              /\ missing = None
              /\ times = None
              /\ ScanStep(r, None)
           \/ /\ ~EpochMismatch(result, r)
              /\ missing = None
              /\ times # None
              /\ ScanStep(r, times)
           \/ /\ ~EpochMismatch(result, r)
              /\ missing = None
              /\ times # None
              /\ ScanFail(Err("append failed", r.id), r, times)
    /\ UNCHANGED <<input, result, path, route, recordings, key, nparams>>

\* list_recordings_by_id has no further row: the checks after the scan
ViewScanEnd ==
    /\ pc = "view_scan"
    /\ NextRow(recordings, result.ids, delivered) = None
    /\ lock' = FALSE
    /\ LET missing == MissingAfter(result, prev)
       IN  IF missing # None
           THEN Fail(Err("no such recording", missing[1])) /\ nparams' = nparams
           ELSE IF EndTimeBeyond(result, cur_off)
           THEN Fail(Err("end time beyond", result.end_time[1])) /\ nparams' = nparams
           ELSE /\ nparams' = nparams + 1
                /\ pc' = "view_params"
                /\ UNCHANGED <<resp, builder>>
    /\ UNCHANGED <<input, result, path, route, recordings, key, prev, cur_off,
                   delivered>>

\* the query has no further parameter (or there is no query):
\* `builder.build(..)?` and `http_serve::serve(mp4, req)`
ViewBuild ==
    /\ pc = "view_params"
    /\ \E built \in BOOLEAN :
         IF built THEN Return(Ok200("mp4", builder)) /\ builder' = NoBuilder
         ELSE Fail(Err("build failed", 0))
    /\ UNCHANGED <<input, result, path, route, recordings, lock, key, nparams,
                   prev, cur_off, delivered>>

Next ==
    \/ Call
    \/ NotFound
    \/ TopLevel \/ TopLevelLock \/ TopLevelWrite
    \/ Camera \/ CameraLock \/ CameraWrite
    \/ StreamRecordings \/ StreamRecordingsList \/ StreamRecordingsWrite
    \/ InitSegment \/ InitSegmentServe
    \/ StaticFile
    \/ ViewResolve
    \/ ViewParamS \/ ViewParamTs \/ ViewParamOther
    \/ ViewLock \/ ViewRow \/ ViewScanEnd
    \/ ViewBuild

Spec == Init /\ [][Next]_vars

(***************************************************************************)
(* The parser alone: Segments::parse on every input of ParseInputs.        *)
(***************************************************************************)
Idle ==
    /\ pc = "idle"
    /\ resp = NoResp
    /\ recordings = [id \in 1..MaxId |-> None]
    /\ lock = FALSE
    /\ builder = NoBuilder
    /\ prev = None
    /\ cur_off = 0
    /\ delivered = <<>>
    /\ key = ""
    /\ nparams = 0

ParseInit ==
    /\ input \in ParseInputs
    /\ result = NotRun
    /\ path = ""
    /\ route = NoRoute
    /\ Idle

Parse ==
    /\ pc = "idle"
    /\ result = NotRun
    /\ \E oc \in BOOLEAN : result' = SegmentsParse(input, oc)
    /\ UNCHANGED <<input, path, route, pc, resp, recordings, lock, builder,
                   key, nparams, prev, cur_off, delivered>>

ParseSpec == ParseInit /\ [][Parse]_vars

(***************************************************************************)
(* The router alone: decode_path on every path of PathInputs.              *)
(***************************************************************************)
PathPrefixes == {"/api/", "/api", "/", "", "/apix/", "/ui/api/"}
HashPieces == {EntrySha1Str, OtherSha1Str,
               SubSeq(EntrySha1Str, 1, 39), EntrySha1Str \o "0",
               SubSeq(EntrySha1Str, 1, 39) \o "g",
               SubSeq(EntrySha1Str, 1, 36), ""}
InitRests == {"init/" \o h \o e : h \in HashPieces,
                                  e \in {".mp4", ".m4s", "", ".mp4x", "0.mp4"}}
UuidPieces == {CameraUuidStr, OtherUuidStr,
               "0a1b2c3d4e5f6789abcdef0123456789",
               "urn:uuid:" \o CameraUuidStr,
               "0a1b2c3d-4e5f-6789-abcd-ef012345678",
               "0a1b2c3d4-e5f-6789-abcd-ef0123456789",
               "0a1b2c3d-4e5f-6789-abcd-ef012345678g",
               "camera", ""}
CameraRests == {"cameras/" \o u \o s \o k \o r :
                  u \in UuidPieces, s \in {"/", ""},
                  k \in {"", "main", "sub", "mainx", "/main"},
                  r \in {"", "/", "/recordings", "/view.mp4", "/view.m4s",
                         "/view.mp5", "/recordings/", "recordings"}}
OtherRests == {"", "cameras", "cameras/", "init", "init/", "index.html", "/"}
PathInputs == {a \o b : a \in PathPrefixes,
                        b \in InitRests \cup CameraRests \cup OtherRests}

PathInit ==
    /\ path \in PathInputs
    /\ route = NoRoute
    /\ input = ""
    /\ result = NotRun
    /\ Idle

Decode ==
    /\ pc = "idle"
    /\ route = NoRoute
    /\ route' = decode_path(path)
    /\ UNCHANGED <<input, result, path, pc, resp, recordings, lock, builder,
                   key, nparams, prev, cur_off, delivered>>

PathSpec == PathInit /\ [][Decode]_vars

(***************************************************************************)
(* Router properties.                                                      *)
(***************************************************************************)
\* The URL grammar, read as equations between the path and its pieces.
PathKinds == {"TopLevel", "InitSegment", "Camera", "StreamRecordings",
              "StreamViewMp4", "StreamViewMp4Segment", "NotFound", "Static"}
TailsFrom(p, n) == {Slice(p, n, j) : j \in n..Len(p)}
IsHash(h) == Len(h) = 40 /\ AllHex(h)
IsCameraId(u) == UuidParseStr(u) # None
LeafKind(leaf) ==
    CASE leaf = "recordings" -> "StreamRecordings"
      [] leaf = "view.mp4" -> "StreamViewMp4"
      [] leaf = "view.m4s" -> "StreamViewMp4Segment"
GrammarRoute(p) ==
    IF Len(p) < 5 \/ SubSeq(p, 1, 5) # "/api/" THEN PathOf("Static", "", "", <<>>)
    ELSE IF p = "/api/" THEN PathOf("TopLevel", "", "", <<>>)
    ELSE IF \E h \in TailsFrom(p, 10) : IsHash(h) /\ p = "/api/init/" \o h \o ".mp4"
    THEN LET h == CHOOSE h \in TailsFrom(p, 10) :
                      IsHash(h) /\ p = "/api/init/" \o h \o ".mp4"
         IN  PathOf("InitSegment", "", "", Dehex(h)[1])
    ELSE IF \E u \in TailsFrom(p, 13) : IsCameraId(u) /\ p = "/api/cameras/" \o u \o "/"
    THEN LET u == CHOOSE u \in TailsFrom(p, 13) :
                      IsCameraId(u) /\ p = "/api/cameras/" \o u \o "/"
         IN  PathOf("Camera", UuidParseStr(u)[1], "", <<>>)
    ELSE IF \E u \in TailsFrom(p, 13), k \in {"main", "sub"},
               leaf \in {"recordings", "view.mp4", "view.m4s"} :
               IsCameraId(u) /\ p = "/api/cameras/" \o u \o "/" \o k \o "/" \o leaf
    THEN LET c == CHOOSE c \in TailsFrom(p, 13) \X {"main", "sub"}
                                \X {"recordings", "view.mp4", "view.m4s"} :
                      /\ IsCameraId(c[1])
                      /\ p = "/api/cameras/" \o c[1] \o "/" \o c[2] \o "/" \o c[3]
         IN  PathOf(LeafKind(c[3]), UuidParseStr(c[1])[1], c[2], <<>>)
    ELSE PathOf("NotFound", "", "", <<>>)

RECURSIVE NumeralEnd(_, _)
NumeralEnd(s, i) == IF At(s, i) \in AsciiDigit THEN NumeralEnd(s, i + 1) ELSE i
Numerals(s) == {SubSeq(s, i, NumeralEnd(s, i) - 1) :
                  i \in {j \in 1..Len(s) : /\ At(s, j) \in AsciiDigit
                                           /\ At(s, j - 1) \notin AsciiDigit}}
OptNumerals(s) == {None} \cup {Some(n) : n \in Numerals(s)}
Opt(prefix, o) == IF o = None THEN "" ELSE prefix \o o[1]
Render(st) ==
    st.start \o Opt("-", st.end) \o Opt("@", st.open)
        \o (IF st.rel THEN "." \o Opt("", st.rel_start) \o "-" \o Opt("", st.rel_end)
            ELSE "")
Shapes(s) ==
    {st \in [start : {SubSeq(s, 1, NumeralEnd(s, 1) - 1)} \ {""},
             end : OptNumerals(s), open : OptNumerals(s), rel : BOOLEAN,
             rel_start : OptNumerals(s), rel_end : OptNumerals(s)] :
        /\ st.rel \/ (st.rel_start = None /\ st.rel_end = None)
        /\ Render(st) = s}

Fits(n, maxStr) == ~DecLess(maxStr, StripZeros(n))
OptFits(o, maxStr) == o = None \/ Fits(o[1], maxStr)
NumLeq(a, b) == ~DecLess(StripZeros(b), StripZeros(a))
Num(n) == DecValue(StripZeros(n), 0)
EndId(st) == IF st.end = None THEN st.start ELSE st.end[1]
RelStart(st) == IF st.rel_start = None THEN "0" ELSE st.rel_start[1]
AllFit(st) ==
    /\ Fits(st.start, I32_MAX_STR)
    /\ OptFits(st.end, I32_MAX_STR)
    /\ OptFits(st.open, U32_MAX_STR)
    /\ OptFits(st.rel_start, I64_MAX_STR)
    /\ OptFits(st.rel_end, I64_MAX_STR)
\* END_ID + 1, the exclusive end of the range, fits the range's i32 too
EndFits(st) == StripZeros(EndId(st)) # I32_MAX_STR
Ordered(st) ==
    /\ NumLeq(st.start, EndId(st))
    /\ st.rel_end = None \/ ~NumLeq(st.rel_end[1], RelStart(st))
Selected(st) ==
    Segments(Num(st.start), Num(EndId(st)) + 1,
             IF st.open = None THEN None ELSE Some(Num(st.open[1])),
             Num(RelStart(st)),
             IF st.rel_end = None THEN None ELSE Some(Num(st.rel_end[1])))
Accepted(s) == {st \in Shapes(s) : AllFit(st) /\ EndFits(st) /\ Ordered(st)}

\* C7: Segments::parse agrees with the grammar on every input: an input of
\* the grammar's shape whose numbers are in range and ordered (END_ID >=
\* START_ID, REL_END > effective REL_START) yields ids [START_ID, END_ID+1),
\* open_id, start_time and end_time as written, with the defaults for the
\* omitted parts; every other input is rejected with a parse failure.
C7_ParseAgreesWithGrammar ==
    result # NotRun =>
        IF Accepted(input) # {}
        THEN \E st \in Accepted(input) : result = Selected(st)
        ELSE result = ParseErr

\* The same agreement on the inputs none of whose ids is 2147483647.
ParseAgreesBelowMax ==
    (result # NotRun /\ \A st \in Shapes(input) :
                            EndFits(st) /\ StripZeros(st.start) # I32_MAX_STR)
        => C7_ParseAgreesWithGrammar

ValidSelection(r) ==
    /\ r.kind = "Ok"
    /\ 0 <= r.ids.start
    /\ r.ids.start < r.ids.end
    /\ 0 <= r.start_time
    /\ r.end_time = None \/ r.end_time[1] > r.start_time
\* C8: on every input Segments::parse returns a parse failure or a selection
\* with a non-empty id range of non-negative start, a non-negative
\* start_time and an end_time, when present, above start_time; an input
\* whose START_ID or END_ID is 2147483647, or one of whose integers is
\* outside its field's range, ends as a parse failure: never as a selection
\* with a wrapped or empty range, never as an abort.
C8_FailureOrValidSelection ==
    result # NotRun =>
        /\ result = ParseErr \/ ValidSelection(result)
        /\ (\E st \in Shapes(input) :
               \/ ~AllFit(st)
               \/ StripZeros(st.start) = I32_MAX_STR
               \/ ~EndFits(st))
           => result = ParseErr

(***************************************************************************)
(* Properties of stream_view_mp4.                                          *)
(***************************************************************************)
\* The scan of the current `s` parameter is under way.
InScan == key = "s" /\ pc = "view_scan"
\* The current `s` parameter has been processed without error.
SelectionPassed == key = "s" /\ pc = "view_params"
\* The request has been served with the built file.
Served == pc = "done" /\ resp.status = "200" /\ resp.what = "mp4"
Failed == pc = "done" /\ resp.status \in {"err", "panic"}

Ids(rows) == [i \in 1..Len(rows) |-> rows[i].id]
RangeSeq(a, b) == [i \in 1..(b - a) |-> a + (i - 1)]
\* the sum of the durations of the first n rows
RECURSIVE SumDur(_, _)
SumDur(rows, n) == IF n = 0 THEN 0 ELSE SumDur(rows, n - 1) + rows[n].duration
Total(rows) == SumDur(rows, Len(rows))

\* C1: a selection passes only if the ids the store delivered for it are
\* exactly ids.start, ids.start+1, ..., ids.end-1, each once and in that
\* order; while the scan goes on the ids delivered so far are the first ids
\* of the range, so that a first id other than ids.start, a jump, a last id
\* other than ids.end-1 and no row at all each make the request fail.
C1_DeliveredIdsExact ==
    /\ (key = "s" /\ (pc = "view_params" \/ Served))
           => Ids(delivered) = RangeSeq(result.ids.start, result.ids.end)
    /\ InScan => Ids(delivered) = RangeSeq(result.ids.start,
                                           result.ids.start + Len(delivered))

\* C1 witness: a selection of several ids has passed.
C1_Witness ==
    /\ SelectionPassed
    /\ Len(delivered) >= 2
    /\ result.ids.end - result.ids.start = Len(delivered)

\* C2: when the selection has an @OPEN_ID, every delivered row has that
\* open id or the request fails at that row, the first such row, whether
\* the row lies in the time window or would be skipped.
C2_EpochCheckedOnEveryRow ==
    (key = "s" /\ result.kind = "Ok" /\ result.open_id # None) =>
        \A i \in 1..Len(delivered) :
            delivered[i].open_id # result.open_id[1] =>
                /\ i = Len(delivered)
                /\ pc = "done"
                /\ resp = Err("open id mismatch", delivered[i].id)

\* C2 witness: the request has failed at a row of another open id that
\* lies wholly after the time window.
C2_Witness ==
    /\ key = "s" /\ result.kind = "Ok" /\ result.open_id # None
    /\ result.end_time # None
    /\ pc = "done"
    /\ resp.what = "open id mismatch"
    /\ Len(delivered) >= 2
    /\ SumDur(delivered, Len(delivered) - 1) >= result.end_time[1]
    /\ delivered[Len(delivered)].open_id # result.open_id[1]

\* the span [off, off + d) of a row and the window [start_time, end_time)
\* have a point in common
Intersects(s, off, d) ==
    /\ Max2(off, s.start_time) < off + d
    /\ s.end_time = None \/ Max2(off, s.start_time) < s.end_time[1]
WindowStart(s, off) == Max2(0, s.start_time - off)
WindowEnd(s, off, d) ==
    IF s.end_time = None THEN d ELSE Min2(d, s.end_time[1] - off)

\* C3: a delivered row that passed the epoch and gap checks is handed to
\* the builder iff its span [off, off + d), off being the sum of the
\* durations of the rows before it, intersects [start_time, end_time); the
\* sub-range handed is [max(0, start_time - off), min(d, end_time - off));
\* every other row is skipped.
C3_HandedIffIntersects ==
    (key = "s" /\ pc \in {"view_scan", "view_params"}) =>
        \A i \in 1..Len(delivered) :
            LET off == SumDur(delivered, i - 1)
                d == delivered[i].duration
                handed == delivered[i].handed
            IN  /\ handed # None <=> Intersects(result, off, d)
                /\ handed # None =>
                       /\ handed[1].start = WindowStart(result, off)
                       /\ handed[1].end = WindowEnd(result, off, d)

\* C4: the cumulative offset of a scan starts at 0 and is advanced by the
\* duration of every delivered row, handed or skipped, so that it is the sum
\* of the durations of the delivered rows; a selection with an end_time
\* fails the end-time check exactly when end_time is above that sum.
C4_OffsetIsSumOfDurations ==
    /\ (key = "s" /\ pc \in {"view_scan", "view_params"})
           => cur_off = Total(delivered)
    /\ (SelectionPassed /\ result.end_time # None)
           => result.end_time[1] <= Total(delivered)
    /\ (pc = "done" /\ resp.what = "end time beyond")
           => /\ cur_off = Total(delivered)
              /\ result.end_time # None
              /\ result.end_time[1] > Total(delivered)
              /\ resp.id = result.end_time[1]

\* C4 witness: a selection with an end_time has passed with a row of
\* positive duration skipped and a row handed to the builder.
C4_Witness ==
    /\ SelectionPassed
    /\ result.end_time # None
    /\ \E i \in 1..Len(delivered) :
           delivered[i].handed = None /\ delivered[i].duration > 0
    /\ \E i \in 1..Len(delivered) : delivered[i].handed # None
    /\ cur_off > result.end_time[1]

IsView == route.kind \in {"StreamViewMp4", "StreamViewMp4Segment"}
\* the selection is consistent with the rows delivered for it
Consistent(s, rows) ==
    /\ Ids(rows) = RangeSeq(s.ids.start, s.ids.end)
    /\ s.open_id = None \/ \A i \in 1..Len(rows) : rows[i].open_id = s.open_id[1]
    /\ s.end_time = None \/ s.end_time[1] <= Total(rows)
\* the parameter taken last has been processed without error
LastParamGood ==
    /\ key \in {"s", "ts"}
    /\ key = "s" => /\ result.kind = "Ok"
                    /\ result \in ViewParsed[input]
                    /\ Consistent(result, delivered)

\* C5: a view request goes on to the next parameter, and to build and
\* serve, only from a parameter processed without error; a parse failure of
\* an `s`, an inconsistent selection and a key other than `s` and `ts` each
\* end the request in an error, with the builder dropped and nothing
\* served.
C5_ServedOnlyWithoutError ==
    IsView =>
        /\ (nparams > 0 /\ (pc = "view_params" \/ Served)) => LastParamGood
        /\ (pc = "done" /\ key # "" /\ ~LastParamGood) => Failed
        /\ resp.status \in {"err", "panic"} => pc = "done" /\ builder = NoBuilder
        /\ Served => nparams <= MaxParams /\ resp.body.type # "none"

\* C5 witness: a request has failed at a selection with a missing
\* recording after an earlier parameter was processed.
C5_Witness ==
    /\ IsView
    /\ Failed
    /\ nparams >= 1
    /\ key = "s"
    /\ resp.what = "no such recording"
    /\ builder = NoBuilder

\* the ids of the selection for which the store has no row
MissingIds(s) == {n \in s.ids.start..(s.ids.end - 1) :
                    n \notin DOMAIN recordings \/ recordings[n] = None}

\* C6: the id named in a missing-recording error lies in the selection's
\* id range and is an id for which the store delivered no row; when exactly
\* one id of the range is missing, the error names it.
C6_MissingIdNamed ==
    (pc = "done" /\ resp.what = "no such recording") =>
        /\ resp.id \in MissingIds(result)
        /\ \A i \in 1..Len(delivered) : delivered[i].id # resp.id
        /\ Cardinality(MissingIds(result)) = 1 => MissingIds(result) = {resp.id}

\* C6 witness: rows 1 and 3 are stored, row 2 is not, and the error of a
\* selection 1-3 names 2.
C6_Witness ==
    /\ pc = "done"
    /\ resp.what = "no such recording"
    /\ resp.id = 2
    /\ result.ids = [start |-> 1, end |-> 4]
    /\ MissingIds(result) = {2}

\* the request names a camera, a stream or a content hash that is not known
UnknownIdentifier ==
    \/ /\ route.kind \in {"Camera", "StreamRecordings", "StreamViewMp4",
                          "StreamViewMp4Segment"}
       /\ GetCamera(route.uuid) = None
    \/ /\ route.kind \in {"StreamRecordings", "StreamViewMp4", "StreamViewMp4Segment"}
       /\ GetCamera(route.uuid) # None
       /\ GetCamera(route.uuid)[1].streams[route.type] = None
    \/ /\ route.kind = "InitSegment"
       /\ route.sha1 # EntrySha1

\* C9: a request that names an unknown camera, a camera without the
\* requested stream or an unknown content hash is answered with the 404
\* not-found response, on every route that takes such an identifier, as an
\* unmatched route and an unmatched static path are.
C9_UnknownIdentifierIs404 ==
    /\ (pc = "done" /\ UnknownIdentifier /\ resp.what # "invalid query")
           => resp = NotFound404
    /\ (pc = "done" /\ route.kind = "NotFound") => resp = NotFound404
    /\ (pc = "done" /\ route.kind = "Static" /\ path \notin UiFiles)
           => resp = NotFound404

(***************************************************************************)
(* Properties of the store lock.                                           *)
(***************************************************************************)
\* the request is writing the response body, or building and serving the
\* container
ProducingBody ==
    \/ pc \in {"top_level_write", "camera_write", "stream_recordings_write",
               "init_segment_serve"}
    \/ IsView /\ pc = "view_params"
    \/ pc = "done"

\* C11: in every handler the store lock is released before any byte of the
\* response body is produced: no request holds the lock while it writes to
\* the body writer or builds and serves the container.
C11_NoLockWhileProducingBody == ProducingBody => ~lock

(***************************************************************************)
(* A view request next to the writers of the store.  A writer takes the    *)
(* store lock, adds, replaces or deletes one recording and releases the    *)
(* lock; the lock of another request that only reads leaves the store as   *)
(* it is.                                                                  *)
(***************************************************************************)
ViewPaths == {"/api/cameras/" \o CameraUuidStr \o "/main/view.mp4",
              "/api/cameras/" \o CameraUuidStr \o "/main/view.m4s"}

\* the stores a request starts from, and what a writer makes of a recording
StoredRow == [open_id |-> 1, duration |-> 10]
WrittenRow == [open_id |-> 2, duration |-> 10]
WriterStores == [1..MaxId -> {None, Some(StoredRow)}]

\* A faulty variant of StoreWrite that does not wait for the lock.
StoreWriteUnlocked ==
    /\ pc \in {"view_lock", "view_scan"}
    /\ \E id \in 1..MaxId, r \in {None, Some(WrittenRow)} :
         /\ recordings[id] # r
         /\ recordings' = [recordings EXCEPT ![id] = r]
    /\ UNCHANGED <<input, result, path, route, pc, resp, lock, builder, key,
                   nparams, prev, cur_off, delivered>>

\* a writer's critical section, while the request works on a selection
StoreWrite ==
    /\ ~lock
    /\ pc \in {"view_lock", "view_scan"}
    /\ \E id \in 1..MaxId, r \in {None, Some(WrittenRow)} :
         /\ recordings[id] # r
         /\ recordings' = [recordings EXCEPT ![id] = r]
    /\ UNCHANGED <<input, result, path, route, pc, resp, lock, builder, key,
                   nparams, prev, cur_off, delivered>>

WriterInit == Init /\ path \in ViewPaths /\ recordings \in WriterStores

WriterNext ==
    \/ Call
    \/ ViewResolve
    \/ ViewParamS \/ ViewParamTs \/ ViewParamOther
    \/ ViewLock \/ ViewRow \/ ViewScanEnd
    \/ ViewBuild
    \/ StoreWrite

WriterSpec == WriterInit /\ [][WriterNext]_vars

\* C12: the lock is held from before the first row of a selection is
\* delivered until the checks after the scan are done; no writer changes
\* the store in between; every row delivered is the store's row of that id,
\* and its id is above the ids delivered before it.
C12_ScanUnderOneLock ==
    [][/\ (pc # "view_scan" /\ pc' = "view_scan") => lock' /\ delivered' = <<>>
       /\ pc = "view_scan" =>
            /\ lock
            /\ recordings' = recordings
            /\ pc' = "view_scan" => lock'
            /\ delivered' # delivered =>
                 /\ Len(delivered') = Len(delivered) + 1
                 /\ SubSeq(delivered', 1, Len(delivered)) = delivered
                 /\ LET row == delivered'[Len(delivered')]
                    IN  /\ recordings[row.id] =
                               Some([open_id |-> row.open_id,
                                     duration |-> row.duration])
                        /\ \A i \in 1..Len(delivered) : delivered[i].id < row.id
      ]_vars

\* C12 witness: the scan of a request's second selection, two rows
\* delivered, the lock held.
C12_Witness ==
    /\ pc = "view_scan"
    /\ lock
    /\ nparams >= 1
    /\ Len(delivered) >= 2

(***************************************************************************)
(* The window test and the clipping of one row on 64-bit values.  A 64-bit *)
(* value is written hi * 2^33 + lo, with lo a value of 32 bits: the sums   *)
(* and differences below are then taken part by part, and `as i32`, which  *)
(* keeps the low 32 bits, keeps lo.                                        *)
(***************************************************************************)
W(hi, lo) == [hi |-> hi, lo |-> lo]
WOf(x) == W(0, x)
WLess(a, b) == a.hi < b.hi \/ (a.hi = b.hi /\ a.lo < b.lo)
WLeq(a, b) == ~WLess(b, a)
WAdd(a, b) == W(a.hi + b.hi, a.lo + b.lo)
WSub(a, b) == W(a.hi - b.hi, a.lo - b.lo)
WMax(a, b) == IF WLess(a, b) THEN b ELSE a
WMin(a, b) == IF WLess(b, a) THEN b ELSE a
\* i64::max_value() = 2^63 - 1 = 2^30 * 2^33 - 1
I64_MAX_W == W(1073741824, -1)
AsI32(w) == w.lo

\* A faulty variant of ClipWide without the test of start_time.
ClipWideNoStartTest(s, off, d) ==
    LET end_time == IF s.end_time # None THEN s.end_time[1] ELSE I64_MAX_W
        start == WMax(WOf(0), WSub(s.start_time, off))
        end == WMin(WOf(d), WSub(end_time, off))
    IN  IF WLess(off, end_time)
        THEN Some([start |-> AsI32(start), end |-> AsI32(end),
                   start64 |-> start, end64 |-> end])
        ELSE None

\* the callback's `if s.start_time <= cur_off + d && cur_off < end_time`
\* with its locals start and end (start64, end64) and the range
\* `start as i32 .. end as i32` handed to builder.append
ClipWide(s, off, d) ==
    LET end_time == IF s.end_time # None THEN s.end_time[1] ELSE I64_MAX_W
        start == WMax(WOf(0), WSub(s.start_time, off))
        end == WMin(WOf(d), WSub(end_time, off))
    IN  IF WLeq(s.start_time, WAdd(off, WOf(d))) /\ WLess(off, end_time)
        THEN Some([start |-> AsI32(start), end |-> AsI32(end),
                   start64 |-> start, end64 |-> end])
        ELSE None

\* accepted selections, offsets and durations
WideStarts == {W(0, 0), W(0, 10), W(0, 25), W(1, 0), W(1, 5), W(1, 10),
               W(1073741824, -2)}
WideEnds == {None, Some(W(0, 15)), Some(W(0, 30)), Some(W(1, 8)), Some(W(2, 0)),
             Some(I64_MAX_W)}
WideOffsets == {W(0, 0), W(0, 10), W(0, 20), W(1, 0), W(1, -10), W(2, 0)}
ClipDurations == {0, 10, 1073741824}
WideSelections ==
    {[kind |-> "Ok", ids |-> [start |-> 1, end |-> 2], open_id |-> None,
      start_time |-> st, end_time |-> et] :
        <<st, et>> \in {x \in WideStarts \X WideEnds :
                          x[2] = None \/ WLess(x[1], x[2][1])}}

ClipInit ==
    /\ result \in WideSelections
    /\ cur_off \in WideOffsets
    /\ input = ""
    /\ path = ""
    /\ route = NoRoute
    /\ pc = "view_scan"
    /\ resp = NoResp
    /\ recordings = [id \in 1..MaxId |-> None]
    /\ lock = TRUE
    /\ builder = FileBuilderNew("Normal")
    /\ key = "s"
    /\ nparams = 0
    /\ prev = None
    /\ delivered = <<>>

\* the callback's window test on one row
ClipRow ==
    /\ delivered = <<>>
    /\ \E d \in ClipDurations :
         delivered' = <<Delivered([id |-> 1, open_id |-> 1, duration |-> d],
                                  ClipWide(result, cur_off, d))>>
    /\ UNCHANGED <<input, result, path, route, pc, resp, recordings, lock,
                   builder, key, nparams, prev, cur_off>>

ClipSpec == ClipInit /\ [][ClipRow]_vars

\* C13: every range start..end handed to builder.append for a row of
\* duration d >= 0 has 0 <= start <= end <= d on the 64-bit values, for every
\* accepted selection and offset, so that `as i32` leaves both as they are.
C13_SubRangeWithinRow ==
    \A i \in 1..Len(delivered) :
        delivered[i].handed # None =>
            LET h == delivered[i].handed[1]
            IN  /\ WLeq(WOf(0), h.start64)
                /\ WLeq(h.start64, h.end64)
                /\ WLeq(h.end64, WOf(delivered[i].duration))
                /\ WOf(h.start) = h.start64
                /\ WOf(h.end) = h.end64

\* C13 witness: a row is handed for a start_time and an offset above 32
\* bits and an end_time of i64::max_value().
C13_Witness ==
    /\ Len(delivered) = 1
    /\ delivered[1].handed # None
    /\ result.start_time.hi > 0
    /\ cur_off.hi > 0
    /\ result.end_time = Some(I64_MAX_W)
    /\ delivered[1].handed[1].start < delivered[1].handed[1].end

\* On 32-bit values the window test on 64-bit values is Clip.
ClipWideIsClip ==
    (Len(delivered) = 1 /\ result.start_time.hi = 0 /\ cur_off.hi = 0
        /\ (result.end_time = None \/ result.end_time[1].hi = 0)) =>
        LET s == [result EXCEPT !.start_time = result.start_time.lo,
                                !.end_time = IF result.end_time = None THEN None
                                             ELSE Some(result.end_time[1].lo)]
            c == Clip(s, cur_off.lo, delivered[1].duration)
            h == delivered[1].handed
        IN  IF c = None THEN h = None
            ELSE h # None /\ c[1] = [start |-> h[1].start, end |-> h[1].end]

\* C14: a selection that passes the scan and the checks after it has handed
\* the builder at least one row with a non-empty range (start < end); a
\* selection without end_time whose start_time is at or beyond the total
\* duration of its rows does not pass with nothing, or only empty ranges,
\* appended.
C14_PassedSelectionHandsARange ==
    SelectionPassed =>
        \E i \in 1..Len(delivered) :
            /\ delivered[i].handed # None
            /\ delivered[i].handed[1].start < delivered[i].handed[1].end

====
